---- MODULE Spec2Model ----
(***************************************************************************)
(* tinysexpr.read: a single-lookahead character cursor with row/column     *)
(* tracking, a trivia skipper, the delimited and bare atom readers, the    *)
(* recursive list parser and the lazy top-level generator, modelled one    *)
(* cursor advance per step.                                                *)
(*                                                                         *)
(* A character is a one-character string, a text is a sequence of          *)
(* characters, the end marker (file_like.read(1) == '') is "".             *)
(* The reader's state is the record Cur; every step of the code is an      *)
(* operator from reader record (and the character the source hands out,    *)
(* when the step pulls one) to reader record, so that the same operators   *)
(* drive the actions and the whole-run function Run.                       *)
(***************************************************************************)
EXTENDS Integers, Sequences, FiniteSets, TLC

VARIABLES
    src,        \* the characters the source has handed out so far, in order
    eof,        \* the source has returned the end marker
    pulls,      \* number of file_like.read(1) calls made
    ch,         \* read(): ch, the lookahead character
    coord,      \* read(): coord
    next_coord, \* read(): next_coord
    pc,         \* where the generator stands
    stack,      \* the open parse() frames, innermost last: begin, exp
    tok,        \* the atom being read by read_delim / read_atom
    out,        \* the forms yielded so far
    err,        \* the SyntaxError raised, if any
    calls,      \* the atom_handler calls made so far: text and range
    built,      \* the SExpr objects constructed so far: range
    stops,      \* requests made of the generator after it ended
    handler     \* read(): the atom_handler argument

vars ==
    <<src, eof, pulls, ch, coord, next_coord, pc, stack, tok, out, err, calls,
      built, stops, handler>>

\* ------------------------------------------------------------------ bounds

\* Longest source text the environment hands out.
MaxLen == 5

\* Most requests the consumer makes of a generator that has ended.
MaxStops == 1

\* ------------------------------------------------------------- characters

NL == "\n"
TAB == "\t"
CR == "\r"

\* The other characters str.isspace() is true for that a string of this
\* module can hold: U+000B, U+000C, U+001C to U+001F, U+0085, U+00A0, U+1680.
VT == ""
FF == "\f"
FS == ""
GS == ""
RS == ""
US == ""
NEL == ""
NBSP == " "
OGHAM == " "

BS == "\\"
DQ == "\""
BAR == "|"
EOFCH == ""

\* Python's None as the escape character of a delimiter without one: equal
\* to no character.
None == "None"

\* Python's None as the value of coord before the first advance: equal to no
\* (row, column).
NoCoord == <<0, 0>>

\* The characters the source may hand out.
Alphabet == {"(", ")", " ", NL, FF, ";", DQ, BAR, BS, "a", "n"}

\* str.isspace() on one character (false on the empty string). U+2000 to
\* U+200A, U+2028, U+2029, U+202F, U+205F and U+3000, the remaining characters
\* it is true for, cannot be written in a string here and are no characters
\* of the model.
isspace(c) ==
    c \in {" ", NL, TAB, CR, VT, FF, FS, GS, RS, US, NEL, NBSP, OGHAM}

\* DEFAULT_DELIMS: delimiter -> (escape_char, escape_map).
DEFAULT_DELIMS ==
    [d \in {DQ, BAR} |->
        IF d = DQ
        THEN [escape_char |-> BS,
              escape_map  |-> [k \in {"n", "t", "r", BS, DQ} |->
                                 CASE k = "n" -> NL
                                   [] k = "t" -> TAB
                                   [] k = "r" -> CR
                                   [] k = BS  -> BS
                                   [] k = DQ  -> DQ]]
        ELSE [escape_char |-> None, escape_map |-> << >>]]

delims == DEFAULT_DELIMS

comment_char == ";"

\* sym_delim = { c for c in '()' + comment_char + ''.join(delims.keys()) }
sym_delim == {"(", ")"} \cup {comment_char} \cup DOMAIN delims

\* ------------------------------------------------------------------ values

\* atom_handler=lambda x, ran: x, and the place of its result in exp.
atom_handler(x, ran) == x

\* A handler a caller passes that converts the text into something else:
\* atom_handler=lambda x, ran: '#' + x
tag_handler(x, ran) == <<"#">> \o x

\* The values of the atom_handler argument: the default and the caller's.
DefaultHandler == "default"
TagHandler == "tag"

\* atom_handler(x, ran) for the handler h that read() was given.
call_handler(h, x, ran) ==
    IF h = TagHandler THEN tag_handler(x, ran) ELSE atom_handler(x, ran)

Atom(v) == [atom |-> v]

\* SExpr(s, range)
SExpr(s, range) == [s |-> s, range |-> range]

IsForm(x) == "s" \in DOMAIN x

\* The reader record of the current state.
Cur ==
    [pulls |-> pulls, ch |-> ch, coord |-> coord, next_coord |-> next_coord,
     pc |-> pc, stack |-> stack, tok |-> tok, out |-> out, err |-> err,
     calls |-> calls, built |-> built, handler |-> handler]

NoTok == [begin |-> NoCoord, read |-> << >>, delim |-> None, first |-> 0]

NoErr == [kind |-> "none", coord |-> NoCoord, expected |-> EOFCH, char |-> EOFCH]

\* ------------------------------------------------------------------ cursor

\* next(): c is what file_like.read(1) returns.
next(st, c) ==
    [st EXCEPT !.ch = c,
               !.coord = st.next_coord,
               !.next_coord = IF c = NL
                              THEN <<st.next_coord[1] + 1, 1>>
                              ELSE <<st.next_coord[1], st.next_coord[2] + 1>>,
               !.pulls = @ + 1]

\* raise <kind>(coord, ...): only UnexpectedChar names an expected character.
raise(st, kind, c) ==
    [st EXCEPT !.pc = "error",
               !.err = [kind |-> kind, coord |-> st.coord,
                        expected |-> EOFCH, char |-> c]]

\* The first lines of read(), run by the first request.
read_begin(st, c) ==
    [st EXCEPT !.ch = c, !.next_coord = <<1, 1>>, !.coord = NoCoord,
               !.pulls = @ + 1, !.pc = "skip_ws"]

\* skip_ws(), the whitespace branch.
skip_ws_space(st, c) == next(st, c)

\* skip_ws_comment with a comment that a newline does not end.
skip_ws_comment_to_eof(st, c) ==
    LET n == next(st, c)
    IN  [n EXCEPT !.pc = IF n.ch # EOFCH THEN "comment" ELSE "skip_ws"]

\* skip_ws_comment with the loop not testing for the end marker:
\* while c != '\n': c = next()
skip_ws_comment_past_eof(st, c) ==
    LET n == next(st, c)
    IN  [n EXCEPT !.pc = IF n.ch # NL THEN "comment" ELSE "skip_ws"]

\* skip_ws(), one turn of the comment loop: while c and c != '\n': c = next()
skip_ws_comment(st, c) ==
    LET n == next(st, c)
    IN  [n EXCEPT !.pc = IF n.ch # EOFCH /\ n.ch # NL THEN "comment" ELSE "skip_ws"]

\* ------------------------------------------------------------------- atoms

\* exp.append(v) in the innermost frame.
exp_append(st, v) ==
    [st EXCEPT !.stack[Len(st.stack)].exp = Append(@, v)]

\* handle_atom with the handler called and the text of the atom stored in
\* place of what the handler returned.
handle_atom_raw(st, text, begin, first, last) ==
    LET ran == <<begin, st.coord>>
        s1  == exp_append(st, Atom(text))
    IN  [s1 EXCEPT !.calls = Append(@, [text |-> text, ran |-> ran,
                                         first |-> first, last |-> last]),
                   !.tok = NoTok,
                   !.pc = "skip_ws"]

\* exp.append(atom_handler(text, (begin, coord))): first and last are the
\* source indexes of the atom's first and last character.
handle_atom(st, text, begin, first, last) ==
    LET ran == <<begin, st.coord>>
        s1  == exp_append(st, Atom(call_handler(st.handler, text, ran)))
    IN  [s1 EXCEPT !.calls = Append(@, [text |-> text, ran |-> ran,
                                         first |-> first, last |-> last]),
                   !.tok = NoTok,
                   !.pc = "skip_ws"]

\* read_delim: begin = coord; read = [curr()]; c = next()
read_delim_begin(st, c) ==
    LET n == next(st, c)
    IN  [n EXCEPT !.tok = [begin |-> st.coord, read |-> <<st.ch>>,
                           delim |-> st.ch, first |-> st.pulls],
                  !.pc = "delim"]

\* read_delim: c == escape_char: c = next()
read_delim_escape(st, c) == [next(st, c) EXCEPT !.pc = "escape"]

\* read_delim_escaped with the escaped character kept instead of the string
\* it is mapped to.
read_delim_escaped_raw(st, c) ==
    [next(st, c) EXCEPT !.tok.read = Append(@, st.ch), !.pc = "delim"]

\* read_delim: c in escape_map: read.append(escape_map[c]), and the c = next()
\* that ends the turn of the loop.
read_delim_escaped(st, c) ==
    [next(st, c) EXCEPT
        !.tok.read = Append(@, delims[st.tok.delim].escape_map[st.ch]),
        !.pc = "delim"]

\* read_delim: c not in escape_map: raise InvalidEscape(coord, c)
read_delim_invalid(st) == raise(st, "InvalidEscape", st.ch)

\* read_delim: c == delim: read.append(c); next(); return
read_delim_close(st, c) ==
    LET n == next(st, c)
    IN  handle_atom(n, Append(st.tok.read, st.ch), st.tok.begin,
                    st.tok.first, st.pulls)

\* read_delim: any other character: read.append(c); c = next()
read_delim_char(st, c) == [next(st, c) EXCEPT !.tok.read = Append(@, st.ch)]

\* read_delim: the loop ends on the end marker: raise UnexpectedEOF(coord)
read_delim_eof(st) == raise(st, "UnexpectedEOF", EOFCH)

\* atom_char with the backslash taken for a reserved character.
atom_char_no_backslash(c) ==
    c # EOFCH /\ ~isspace(c) /\ c \notin sym_delim \cup {BS}

\* atom_char with a delimiter not ending a bare atom.
atom_char_past_delims(c) ==
    c # EOFCH /\ ~isspace(c) /\ c \notin {"(", ")", comment_char}

\* atom_char with the end marker not tested for:
\* while not c.isspace() and c not in sym_delim
atom_char_no_eof_test(c) == ~isspace(c) /\ c \notin sym_delim

\* The condition of read_atom's loop.
atom_char(c) == c # EOFCH /\ ~isspace(c) /\ c \notin sym_delim

\* read_atom: read = []; begin = coord; c = curr(), and the first turn of
\* the loop (its condition holds where parse calls read_atom).
read_atom_begin(st, c) ==
    LET n == next(st, c)
    IN  [n EXCEPT !.tok = [begin |-> st.coord, read |-> <<st.ch>>,
                           delim |-> None, first |-> st.pulls],
                  !.pc = "atom"]

\* read_atom: one more turn of the loop.
read_atom_char(st, c) == [next(st, c) EXCEPT !.tok.read = Append(@, st.ch)]

\* read_atom: the loop ends: return (''.join(read), (begin, coord))
read_atom_end(st) ==
    handle_atom(st, st.tok.read, st.tok.begin, st.tok.first, st.pulls - 1)

\* ------------------------------------------------------------------- lists

\* parse_open with a nested bracket opening no frame of its own.
parse_open_flat(st, c) ==
    LET n == next(st, c)
    IN  IF st.stack # << >>
        THEN [n EXCEPT !.pc = "skip_ws"]
        ELSE [n EXCEPT !.stack = Append(@, [begin |-> n.coord, exp |-> << >>,
                                            open |-> st.pulls]),
                       !.pc = "skip_ws"]

\* case '(': next(); parse(coord). open is the source index of the bracket.
parse_open(st, c) ==
    LET n == next(st, c)
    IN  [n EXCEPT !.stack = Append(@, [begin |-> n.coord, exp |-> << >>,
                                       open |-> st.pulls]),
                  !.pc = "skip_ws"]

\* parse_close with the generator suspended at the close of a list nested
\* one deep as well.
parse_close_yield_nested(st, c) ==
    LET n   == next(st, c)
        top == n.stack[Len(n.stack)]
        res == SExpr(top.exp, <<top.begin, n.coord>>)
        n1  == [n EXCEPT !.stack = SubSeq(@, 1, Len(@) - 1),
                         !.built = Append(@, [range |-> res.range,
                                              open |-> top.open,
                                              close |-> st.pulls])]
    IN  IF Len(n.stack) <= 2
        THEN [n1 EXCEPT !.out = Append(@, res), !.pc = "yielded"]
        ELSE [n1 EXCEPT !.stack[Len(n1.stack)].exp = Append(@, res)]

\* parse_close with the nested form put first in the parent's exp.
parse_close_prepend(st, c) ==
    LET n   == next(st, c)
        top == n.stack[Len(n.stack)]
        res == SExpr(top.exp, <<top.begin, n.coord>>)
        n1  == [n EXCEPT !.stack = SubSeq(@, 1, Len(@) - 1),
                         !.built = Append(@, [range |-> res.range,
                                              open |-> top.open,
                                              close |-> st.pulls])]
    IN  IF Len(n.stack) = 1
        THEN [n1 EXCEPT !.out = Append(@, res), !.pc = "yielded"]
        ELSE [n1 EXCEPT !.stack[Len(n1.stack)].exp = <<res>> \o @]

\* case ')': next(); return SExpr(tuple(exp), (begin, coord)), to the parent
\* frame's exp.append(s) or to the top level's yield res.
parse_close(st, c) ==
    LET n   == next(st, c)
        top == n.stack[Len(n.stack)]
        res == SExpr(top.exp, <<top.begin, n.coord>>)
        n1  == [n EXCEPT !.stack = SubSeq(@, 1, Len(@) - 1),
                         !.built = Append(@, [range |-> res.range,
                                              open |-> top.open,
                                              close |-> st.pulls])]
    IN  IF Len(n.stack) = 1
        THEN [n1 EXCEPT !.out = Append(@, res), !.pc = "yielded"]
        ELSE exp_append(n1, res)

\* parse_eof with the open lists closed at the end of the text and the
\* outermost one yielded.
parse_eof_autoclose(st) ==
    [st EXCEPT !.pc = "yielded",
               !.out = Append(@, SExpr(st.stack[1].exp,
                                       <<st.stack[1].begin, st.coord>>)),
               !.stack = << >>]

\* if not c: raise UnexpectedEOF(coord)
parse_eof(st) == raise(st, "UnexpectedEOF", EOFCH)

\* read_return with the end of the stream at top level taken for an error.
read_return_eof_error(st) == raise(st, "UnexpectedEOF", EOFCH)

\* read(): case '': return
read_return(st) == [st EXCEPT !.pc = "done"]

\* read_unexpected with a closing bracket at top level taken for the end of
\* the text.
read_unexpected_close_ends(st) ==
    IF st.ch = ")"
    THEN [st EXCEPT !.pc = "done"]
    ELSE [raise(st, "UnexpectedChar", st.ch) EXCEPT !.err.expected = "("]

\* read(): case c: raise UnexpectedChar(coord, '(', c)
read_unexpected(st) ==
    [raise(st, "UnexpectedChar", st.ch) EXCEPT !.err.expected = "("]

\* The consumer asks for the next form of a suspended generator.
read_resume(st) == [st EXCEPT !.pc = "skip_ws"]

\* read_exhausted with the reader taking up the text again after an error.
read_exhausted_resync(st) ==
    IF st.pc = "error"
    THEN [st EXCEPT !.pc = "skip_ws", !.err = NoErr, !.stack = << >>,
                    !.tok = NoTok]
    ELSE st

\* The consumer asks for the next form of a generator that has returned or
\* raised: StopIteration, and no code of read() runs.
read_exhausted(st) == st

\* ------------------------------------------------------------------ guards

\* Where the code stands, as conditions on the reader record: the branch
\* taken by skip_ws, by the match of read()'s loop, by the match of parse's
\* loop and by the loops of read_delim and read_atom.

InList(st) == st.stack # << >>

at_start(st) == st.pc = "created"

at_resume(st) == st.pc = "yielded"

at_space(st) == st.pc = "skip_ws" /\ isspace(st.ch)

at_comment(st) ==
    \/ st.pc = "skip_ws" /\ ~isspace(st.ch) /\ st.ch = comment_char
    \/ st.pc = "comment"

\* skip_ws has returned c.
skipped(st) ==
    st.pc = "skip_ws" /\ ~isspace(st.ch) /\ st.ch # comment_char

at_top_open(st) == skipped(st) /\ ~InList(st) /\ st.ch = "("

at_top_return(st) == skipped(st) /\ ~InList(st) /\ st.ch = EOFCH

at_top_unexpected(st) ==
    skipped(st) /\ ~InList(st) /\ st.ch \notin {"(", EOFCH}

at_parse_eof(st) == skipped(st) /\ InList(st) /\ st.ch = EOFCH

at_parse_open(st) == skipped(st) /\ InList(st) /\ st.ch = "("

at_parse_close(st) == skipped(st) /\ InList(st) /\ st.ch = ")"

at_delim(st) ==
    /\ skipped(st) /\ InList(st)
    /\ st.ch \notin {EOFCH, "(", ")"}
    /\ st.ch \in DOMAIN delims

at_atom(st) ==
    /\ skipped(st) /\ InList(st)
    /\ st.ch \notin {EOFCH, "(", ")"}
    /\ st.ch \notin DOMAIN delims

in_delim(st) == st.pc = "delim" /\ st.ch # EOFCH

at_delim_escape(st) ==
    in_delim(st) /\ st.ch = delims[st.tok.delim].escape_char

at_delim_close(st) ==
    /\ in_delim(st)
    /\ st.ch # delims[st.tok.delim].escape_char
    /\ st.ch = st.tok.delim

at_delim_char(st) ==
    /\ in_delim(st)
    /\ st.ch # delims[st.tok.delim].escape_char
    /\ st.ch # st.tok.delim

at_delim_eof(st) == st.pc = "delim" /\ st.ch = EOFCH

at_escaped(st) == st.pc = "escape"

\* The escaped character is a key of the escape map.
escape_known(st) == st.ch \in DOMAIN delims[st.tok.delim].escape_map

at_atom_char(st) == st.pc = "atom" /\ atom_char(st.ch)

at_atom_end(st) == st.pc = "atom" /\ ~atom_char(st.ch)

\* The generator has finished: it returned or it raised.
finished(st) == st.pc \in {"done", "error"}

\* ---------------------------------------------------------------- whole run

\* One step of the code from st; c is what file_like.read(1) returns if the
\* step pulls a character.
Step(st, c) ==
    CASE at_start(st)          -> read_begin(st, c)
      [] at_resume(st)         -> read_resume(st)
      [] at_space(st)          -> skip_ws_space(st, c)
      [] at_comment(st)        -> skip_ws_comment(st, c)
      [] at_top_open(st)       -> parse_open(st, c)
      [] at_top_return(st)     -> read_return(st)
      [] at_top_unexpected(st) -> read_unexpected(st)
      [] at_parse_eof(st)      -> parse_eof(st)
      [] at_parse_open(st)     -> parse_open(st, c)
      [] at_parse_close(st)    -> parse_close(st, c)
      [] at_delim(st)          -> read_delim_begin(st, c)
      [] at_atom(st)           -> read_atom_begin(st, c)
      [] at_delim_escape(st)   -> read_delim_escape(st, c)
      [] at_delim_close(st)    -> read_delim_close(st, c)
      [] at_delim_char(st)     -> read_delim_char(st, c)
      [] at_delim_eof(st)      -> read_delim_eof(st)
      [] at_escaped(st) /\ escape_known(st)  -> read_delim_escaped(st, c)
      [] at_escaped(st) /\ ~escape_known(st) -> read_delim_invalid(st)
      [] at_atom_char(st)      -> read_atom_char(st, c)
      [] at_atom_end(st)       -> read_atom_end(st)

\* StringIO(s).read(1) after n earlier reads.
CharAt(s, n) == IF n + 1 <= Len(s) THEN s[n + 1] ELSE EOFCH

RECURSIVE Run(_, _)
\* for _ in read(StringIO(s)): pass, from the reader record st on.
Run(st, s) ==
    IF finished(st) THEN st ELSE Run(Step(st, CharAt(s, st.pulls)), s)

\* The reader record of a generator just created.
Created ==
    [pulls |-> 0, ch |-> EOFCH, coord |-> NoCoord, next_coord |-> NoCoord,
     pc |-> "created", stack |-> << >>, tok |-> NoTok, out |-> << >>,
     err |-> NoErr, calls |-> << >>, built |-> << >>,
     handler |-> DefaultHandler]

\* The whole run of read() over the text s, every form requested.
ReadAll(s) == Run(Created, s)

\* The same with the handler h passed: read(StringIO(s), atom_handler=h).
ReadAllWith(h, s) == Run([Created EXCEPT !.handler = h], s)

\* ------------------------------------------------------------------ source

\* What file_like.read(1) may return now.
Source ==
    IF eof \/ Len(src) >= MaxLen THEN {EOFCH} ELSE Alphabet \cup {EOFCH}

\* The reader record n becomes the reader's state.
InstallReader(n) ==
    /\ pulls' = n.pulls
    /\ ch' = n.ch
    /\ coord' = n.coord
    /\ next_coord' = n.next_coord
    /\ pc' = n.pc
    /\ stack' = n.stack
    /\ tok' = n.tok
    /\ out' = n.out
    /\ err' = n.err
    /\ calls' = n.calls
    /\ built' = n.built
    /\ handler' = n.handler

\* A step of the code of read(): the generator has not ended.
Install(n) == InstallReader(n) /\ stops' = stops

\* The source hands out c.
Pull(c) ==
    /\ src' = IF c = EOFCH THEN src ELSE Append(src, c)
    /\ eof' = (c = EOFCH)

NoPull == UNCHANGED <<src, eof>>

Init ==
    /\ src = << >>
    /\ eof = FALSE
    /\ pulls = 0
    /\ ch = EOFCH
    /\ coord = NoCoord
    /\ next_coord = NoCoord
    /\ pc = "created"
    /\ stack = << >>
    /\ tok = NoTok
    /\ out = << >>
    /\ err = NoErr
    /\ calls = << >>
    /\ built = << >>
    /\ stops = 0
    /\ handler = DefaultHandler

\* read(file_like, atom_handler=h) called with the default handler or with a
\* handler of the caller's.
HandlerInit ==
    /\ src = << >>
    /\ eof = FALSE
    /\ pulls = 0
    /\ ch = EOFCH
    /\ coord = NoCoord
    /\ next_coord = NoCoord
    /\ pc = "created"
    /\ stack = << >>
    /\ tok = NoTok
    /\ out = << >>
    /\ err = NoErr
    /\ calls = << >>
    /\ built = << >>
    /\ stops = 0
    /\ handler \in {DefaultHandler, TagHandler}

\* ----------------------------------------------------------------- actions

Start ==
    /\ at_start(Cur)
    /\ \E c \in Source : Pull(c) /\ Install(read_begin(Cur, c))

Resume ==
    /\ at_resume(Cur)
    /\ NoPull
    /\ Install(read_resume(Cur))

SkipSpace ==
    /\ at_space(Cur)
    /\ \E c \in Source : Pull(c) /\ Install(skip_ws_space(Cur, c))

SkipComment ==
    /\ at_comment(Cur)
    /\ \E c \in Source : Pull(c) /\ Install(skip_ws_comment(Cur, c))

TopOpen ==
    /\ at_top_open(Cur)
    /\ \E c \in Source : Pull(c) /\ Install(parse_open(Cur, c))

TopReturn ==
    /\ at_top_return(Cur)
    /\ NoPull
    /\ Install(read_return(Cur))

TopUnexpected ==
    /\ at_top_unexpected(Cur)
    /\ NoPull
    /\ Install(read_unexpected(Cur))

ParseEOF ==
    /\ at_parse_eof(Cur)
    /\ NoPull
    /\ Install(parse_eof(Cur))

ParseOpen ==
    /\ at_parse_open(Cur)
    /\ \E c \in Source : Pull(c) /\ Install(parse_open(Cur, c))

ParseClose ==
    /\ at_parse_close(Cur)
    /\ \E c \in Source : Pull(c) /\ Install(parse_close(Cur, c))

DelimBegin ==
    /\ at_delim(Cur)
    /\ \E c \in Source : Pull(c) /\ Install(read_delim_begin(Cur, c))

DelimEscape ==
    /\ at_delim_escape(Cur)
    /\ \E c \in Source : Pull(c) /\ Install(read_delim_escape(Cur, c))

DelimEscaped ==
    /\ at_escaped(Cur) /\ escape_known(Cur)
    /\ \E c \in Source : Pull(c) /\ Install(read_delim_escaped(Cur, c))

DelimInvalid ==
    /\ at_escaped(Cur) /\ ~escape_known(Cur)
    /\ NoPull
    /\ Install(read_delim_invalid(Cur))

DelimClose ==
    /\ at_delim_close(Cur)
    /\ \E c \in Source : Pull(c) /\ Install(read_delim_close(Cur, c))

DelimChar ==
    /\ at_delim_char(Cur)
    /\ \E c \in Source : Pull(c) /\ Install(read_delim_char(Cur, c))

DelimEOF ==
    /\ at_delim_eof(Cur)
    /\ NoPull
    /\ Install(read_delim_eof(Cur))

AtomBegin ==
    /\ at_atom(Cur)
    /\ \E c \in Source : Pull(c) /\ Install(read_atom_begin(Cur, c))

AtomChar ==
    /\ at_atom_char(Cur)
    /\ \E c \in Source : Pull(c) /\ Install(read_atom_char(Cur, c))

AtomEnd ==
    /\ at_atom_end(Cur)
    /\ NoPull
    /\ Install(read_atom_end(Cur))

Exhausted ==
    /\ finished(Cur)
    /\ stops < MaxStops
    /\ NoPull
    /\ InstallReader(read_exhausted(Cur))
    /\ stops' = stops + 1

Next ==
    \/ Start
    \/ Resume
    \/ SkipSpace
    \/ SkipComment
    \/ TopOpen
    \/ TopReturn
    \/ TopUnexpected
    \/ ParseEOF
    \/ ParseOpen
    \/ ParseClose
    \/ DelimBegin
    \/ DelimEscape
    \/ DelimEscaped
    \/ DelimInvalid
    \/ DelimClose
    \/ DelimChar
    \/ DelimEOF
    \/ AtomBegin
    \/ AtomChar
    \/ AtomEnd
    \/ Exhausted

Spec == Init /\ [][Next]_vars

\* The steps the code of read() takes by itself once a form is requested:
\* every action but the requests, which are the consumer's to make.
ReaderStep ==
    \/ SkipSpace
    \/ SkipComment
    \/ TopOpen
    \/ TopReturn
    \/ TopUnexpected
    \/ ParseEOF
    \/ ParseOpen
    \/ ParseClose
    \/ DelimBegin
    \/ DelimEscape
    \/ DelimEscaped
    \/ DelimInvalid
    \/ DelimClose
    \/ DelimChar
    \/ DelimEOF
    \/ AtomBegin
    \/ AtomChar
    \/ AtomEnd

\* The interpreter runs the generator's code on until it yields, returns or
\* raises, and read(1) of a finite source returns: a step of the reader that
\* can be taken is taken. The consumer may stop asking at any time.
FairSpec == Init /\ [][Next]_vars /\ WF_vars(ReaderStep)

\* The reader with any of the handlers.
HandlerSpec == HandlerInit /\ [][Next]_vars

\* ------------------------------------------------- the text, read directly

\* The 1-indexed (row, column) of the i-th character of the text s: row is
\* one more than the newlines before it, column one more than the characters
\* since the last newline.
RowOf(s, i) == 1 + Cardinality({j \in 1..(i - 1) : s[j] = NL})

LastNewline(s, i) ==
    LET nls == {j \in 1..(i - 1) : s[j] = NL}
    IN  IF nls = {} THEN 0 ELSE CHOOSE j \in nls : \A k \in nls : k <= j

ColOf(s, i) == i - LastNewline(s, i)

TrueCoord(s, i) == <<RowOf(s, i), ColOf(s, i)>>

\* The grammar form := '(' (form | atom)* ')', atom := delimited | bare, with
\* comments and whitespace between tokens, as a left-to-right scan of the
\* text that keeps the lexical mode, the bracket depth and the tokens seen.
OpenTok == [t |-> "(", text |-> << >>]

CloseTok == [t |-> ")", text |-> << >>]

AtomTok(text) == [t |-> "atom", text |-> text]

RefStart ==
    [mode |-> "code", depth |-> 0, toks |-> << >>, text |-> << >>, d |-> None]

RefDead(r) == [r EXCEPT !.mode = "dead"]

\* The character c seen between tokens.
RefCode(r, c) ==
    CASE isspace(c) -> [r EXCEPT !.mode = "code"]
      [] c = comment_char -> [r EXCEPT !.mode = "comment"]
      [] c = "(" -> [r EXCEPT !.mode = "code", !.depth = @ + 1,
                              !.toks = Append(@, OpenTok)]
      [] c = ")" -> IF r.depth = 0 THEN RefDead(r)
                    ELSE [r EXCEPT !.mode = "code", !.depth = @ - 1,
                                   !.toks = Append(@, CloseTok)]
      [] OTHER -> IF r.depth = 0 THEN RefDead(r)
                  ELSE IF c \in DOMAIN DEFAULT_DELIMS
                       THEN [r EXCEPT !.mode = "delim", !.text = <<c>>, !.d = c]
                       ELSE [r EXCEPT !.mode = "bare", !.text = <<c>>]

RefStep(r, c) ==
    CASE r.mode = "dead" -> r
      [] r.mode = "badescape" -> r
      [] r.mode = "code" -> RefCode(r, c)
      [] r.mode = "comment" -> IF c = NL THEN [r EXCEPT !.mode = "code"] ELSE r
      [] r.mode = "bare" ->
            IF isspace(c) \/ c \in {"(", ")", comment_char}
                          \/ c \in DOMAIN DEFAULT_DELIMS
            THEN RefCode([r EXCEPT !.toks = Append(@, AtomTok(r.text))], c)
            ELSE [r EXCEPT !.text = Append(@, c)]
      [] r.mode = "delim" ->
            IF c = DEFAULT_DELIMS[r.d].escape_char
            THEN [r EXCEPT !.mode = "escape"]
            ELSE IF c = r.d
                 THEN [r EXCEPT !.mode = "code",
                                !.toks = Append(@, AtomTok(Append(r.text, c)))]
                 ELSE [r EXCEPT !.text = Append(@, c)]
      [] r.mode = "escape" ->
            IF c \in DOMAIN DEFAULT_DELIMS[r.d].escape_map
            THEN [r EXCEPT !.mode = "delim",
                           !.text = Append(@, DEFAULT_DELIMS[r.d].escape_map[c])]
            ELSE [r EXCEPT !.mode = "badescape"]

RECURSIVE RefScanFrom(_, _, _)
RefScanFrom(r, s, i) ==
    IF i > Len(s) THEN r ELSE RefScanFrom(RefStep(r, s[i]), s, i + 1)

RefScan(s) == RefScanFrom(RefStart, s, 1)

\* The text s can still be continued to a sequence of well-formed forms.
Viable(s) == RefScan(s).mode \notin {"dead", "badescape"}

\* The text s is n >= 0 well-formed forms with whitespace and comments.
WellFormed(s) ==
    LET r == RefScan(s) IN r.mode \in {"code", "comment"} /\ r.depth = 0

\* The tokens of the text s.
RefTokens(s) == RefScan(s).toks

\* The lexical mode in which the i-th character of s is met.
ModeAt(s, i) == RefScan(SubSeq(s, 1, i - 1)).mode

\* The tokens of parsed values: the structure and the atom texts, without
\* the ranges.
RECURSIVE Flatten(_)
Flatten(xs) ==
    IF xs = << >> THEN << >>
    ELSE LET x == Head(xs)
         IN  (IF IsForm(x)
              THEN <<OpenTok>> \o Flatten(x.s) \o <<CloseTok>>
              ELSE <<AtomTok(x.atom)>>) \o Flatten(Tail(xs))

\* The part of the source text the cursor has moved past.
Consumed == SubSeq(src, 1, pulls - 1)

\* ------------------------------------------------------------------ claims

\* C1: an input of n >= 0 well-formed top-level forms yields exactly those n
\* forms, in source order and with the nesting of their text, and then ends
\* cleanly: whenever the generator has yielded or returned, the forms
\* yielded so far are, token for token, the text consumed so far, which is
\* well-formed; and it raises only on a text that is not well-formed.
C1_FormsInSourceOrder ==
    /\ pc \in {"yielded", "done"} =>
          /\ WellFormed(Consumed)
          /\ Flatten(out) = RefTokens(Consumed)
    /\ pc = "done" => Consumed = src
    /\ pc = "error" => IF eof THEN ~WellFormed(src) ELSE ~Viable(src)

\* Two forms have been yielded, the second with an element, and the
\* generator has returned.
C1_Witness ==
    /\ pc = "done"
    /\ Len(out) = 2
    /\ out[1].s = << >>
    /\ out[2].s # << >>

\* C2: the span of every form runs from the (row, column) of its opening
\* bracket to the (row, column) of its closing bracket, newlines included.
C2_FormSpanIsBrackets ==
    \A i \in DOMAIN built :
        built[i].range = <<TrueCoord(src, built[i].open),
                           TrueCoord(src, built[i].close)>>

\* C3: UnexpectedChar names the offending top-level character and carries
\* the (row, column) of that character.
C3_UnexpectedCharCoord ==
    err.kind = "UnexpectedChar" =>
        /\ err.char = src[pulls]
        /\ err.coord = TrueCoord(src, pulls)

\* C4: InvalidEscape names the character x after the escape character and
\* carries the (row, column) of x.
C4_InvalidEscapeCoord ==
    (err.kind = "InvalidEscape" /\ err.char # EOFCH) =>
        /\ err.char = src[pulls]
        /\ err.coord = TrueCoord(src, pulls)

\* C5: when the text ends inside a delimited atom, whatever came before,
\* the error raised is UnexpectedEOF.
C5_EOFInDelimited ==
    (finished(Cur) /\ eof /\ RefScan(src).mode \in {"delim", "escape"}) =>
        /\ pc = "error"
        /\ err.kind = "UnexpectedEOF"

\* C6, as stated: when the run ends on a text that leaves a list open, the
\* error raised is UnexpectedEOF.
C6_OpenListIsEOF ==
    (finished(Cur) /\ RefScan(src).depth > 0) =>
        /\ pc = "error"
        /\ err.kind = "UnexpectedEOF"

\* C6, amended: when the run ends on a text that leaves a list open, no form
\* is yielded for it and an error is raised: InvalidEscape when an escape
\* character of a delimited atom is not followed by a key of its escape
\* map, UnexpectedEOF (at the end of the text) otherwise; and every form
\* ever constructed has had both its brackets read.
C6_OpenListRaises ==
    /\ (finished(Cur) /\ RefScan(src).depth > 0) =>
          /\ pc = "error"
          /\ Flatten(out) = RefTokens(SubSeq(src, 1, stack[1].open - 1))
          /\ IF RefScan(src).mode \in {"escape", "badescape"}
             THEN err.kind = "InvalidEscape"
             ELSE err.kind = "UnexpectedEOF" /\ eof
    /\ \A i \in DOMAIN built :
          /\ built[i].open < built[i].close
          /\ src[built[i].open] = "("
          /\ src[built[i].close] = ")"

\* The text has ended two lists deep, after an atom and trailing whitespace,
\* and UnexpectedEOF has been raised.
C6_Witness ==
    /\ pc = "error"
    /\ eof
    /\ err.kind = "UnexpectedEOF"
    /\ Len(stack) = 2
    /\ calls # << >>
    /\ isspace(src[Len(src)])

\* The text of a delimited atom's body with every escape sequence replaced
\* by the string it is mapped to.
RECURSIVE Decoded(_, _)
Decoded(d, body) ==
    IF body = << >> THEN << >>
    ELSE IF /\ Head(body) = DEFAULT_DELIMS[d].escape_char
            /\ Len(body) >= 2
            /\ body[2] \in DOMAIN DEFAULT_DELIMS[d].escape_map
         THEN <<DEFAULT_DELIMS[d].escape_map[body[2]]>>
                  \o Decoded(d, Tail(Tail(body)))
         ELSE <<Head(body)>> \o Decoded(d, Tail(body))

\* C7: the text handed to the atom handler for a delimited atom is the
\* opening delimiter, the decoded body and the closing delimiter; without
\* an escape character the body is kept as it is and holds no delimiter.
C7_DelimitedText ==
    \A i \in DOMAIN calls :
        LET f == calls[i].first
            l == calls[i].last
            d == src[f]
            body == SubSeq(src, f + 1, l - 1)
        IN  d \in DOMAIN DEFAULT_DELIMS =>
              /\ f < l
              /\ src[l] = d
              /\ calls[i].text = <<d>> \o Decoded(d, body) \o <<d>>
              /\ DEFAULT_DELIMS[d].escape_char = None =>
                    /\ \A j \in DOMAIN body : body[j] # d
                    /\ calls[i].text = SubSeq(src, f, l)

\* The handler has been given a string whose escape sequence was decoded to
\* a newline.
C7_Witness ==
    \E i \in DOMAIN calls :
        /\ calls[i].text = <<DQ, NL, DQ>>
        /\ SubSeq(src, calls[i].first, calls[i].last) = <<DQ, BS, "n", DQ>>

\* C8: the span handed to the atom handler runs from the (row, column) of
\* the atom's first character to that of its last character.
C8_AtomSpan ==
    \A i \in DOMAIN calls :
        calls[i].ran = <<TrueCoord(src, calls[i].first),
                         TrueCoord(src, calls[i].last)>>

\* The comment bodies tried: any text without a newline.
CommentBodies == {<< >>, <<"a">>, <<"(">>, <<DQ, ";">>}

Comment(body) == <<comment_char>> \o body \o <<NL>>

\* The text s with the text t put just before its i-th character.
Inserted(s, i, t) == SubSeq(s, 1, i - 1) \o t \o SubSeq(s, i, Len(s))

\* Reading the text with a comment put before its i-th character gives the
\* forms read from the text itself.
SameWithComment(i) ==
    \A b \in CommentBodies :
        LET r == ReadAll(Inserted(src, i, Comment(b)))
        IN  r.pc = "done" /\ Flatten(r.out) = Flatten(out)

\* C9, as stated: a comment before any whitespace character of a well-formed
\* text leaves the forms read unchanged.
C9_CommentBeforeAnyWhitespace ==
    (pc = "done" /\ WellFormed(src)) =>
        \A i \in DOMAIN src : isspace(src[i]) => SameWithComment(i)

\* C9, amended: a comment before any whitespace character that stands
\* outside delimited atoms and comments leaves the forms read unchanged.
C9_CommentBeforeTrivia ==
    (pc = "done" /\ WellFormed(src)) =>
        \A i \in DOMAIN src :
            (isspace(src[i]) /\ ModeAt(src, i) \in {"code", "bare"}) =>
                SameWithComment(i)

\* A form of two bare atoms separated by one whitespace character has been
\* read to the end.
C9_Witness ==
    /\ pc = "done"
    /\ Len(src) = 5
    /\ isspace(src[3]) /\ ModeAt(src, 3) = "bare"
    /\ Len(calls) = 2

\* A non-empty text without whitespace and reserved characters.
BareText(s) ==
    /\ s # << >>
    /\ \A j \in DOMAIN s : ~isspace(s[j]) /\ s[j] \notin {"(", ")", ";", DQ, BAR}

\* C10: reading '(' + text + ')' for a bare text gives one form with one
\* element, the text.
C10_BareRoundTrip ==
    (pc = "done" /\ Len(src) >= 3) =>
        LET text == SubSeq(src, 2, Len(src) - 1)
        IN  (src[1] = "(" /\ src[Len(src)] = ")" /\ BareText(text)) =>
              /\ Len(out) = 1
              /\ out[1].s = <<Atom(text)>>

\* A bare atom holding a backslash has been read back.
C10_Witness ==
    /\ pc = "done"
    /\ Len(out) = 1
    /\ out[1].s = <<Atom(<<"a", BS, "n">>)>>

\* The text s is whitespace and comments only: every character is whitespace
\* or stands after a comment character with no newline in between.
TriviaOnly(s) ==
    \A i \in DOMAIN s :
        \/ isspace(s[i])
        \/ \E j \in 1..i : s[j] = comment_char /\ \A k \in j..(i - 1) : s[k] # NL

\* C11: a text of whitespace and comments only, the empty text and a last
\* comment without newline included, yields no form and raises no error:
\* the generator returns at the end of the text.
C11_TriviaYieldsNothing ==
    TriviaOnly(src) =>
        /\ pc # "error" /\ err = NoErr
        /\ out = << >> /\ calls = << >> /\ built = << >>
        /\ (eof /\ pc \notin {"skip_ws", "comment"}) => pc = "done"

\* The generator has returned on a text that ends inside a comment.
C11_Witness ==
    /\ pc = "done"
    /\ TriviaOnly(src)
    /\ Len(src) >= 3
    /\ src[Len(src)] = "("

\* The text s ends with a closing bracket that stands at top level, outside
\* any list, atom and comment.
StrayClose(s) ==
    /\ s # << >>
    /\ s[Len(s)] = ")"
    /\ LET r == RefScan(SubSeq(s, 1, Len(s) - 1))
       IN  r.mode = "code" /\ r.depth = 0

\* C12: a closing bracket at top level raises UnexpectedChar, expected '('
\* and got ')', as every stray top-level character does, and only when all
\* the forms before it have been yielded.
C12_StrayClose ==
    /\ StrayClose(src) =>
          /\ pc \in {"yielded", "skip_ws", "error"}
          /\ pc = "error" =>
                /\ err.kind = "UnexpectedChar" /\ err.char = ")"
                /\ Flatten(out) = RefTokens(SubSeq(src, 1, Len(src) - 1))
    /\ err.kind = "UnexpectedChar" =>
          /\ err.expected = "(" /\ err.char = ch /\ err.char = src[Len(src)]
          /\ stack = << >>

\* The text (a)) has raised UnexpectedChar for its last bracket after the
\* form (a) was yielded.
C12_Witness ==
    /\ pc = "error"
    /\ src = <<"(", "a", ")", ")">>
    /\ err.kind = "UnexpectedChar"
    /\ Len(out) = 1

\* C13: once a syntax error has been raised, nothing changes any more: no
\* later request yields a form, pulls a character or calls the handler.
C13_ErrorsAbsorbing ==
    [][err.kind # "none" =>
          /\ err' = err /\ pc' = "error"
          /\ out' = out /\ pulls' = pulls /\ src' = src
          /\ calls' = calls /\ built' = built]_vars

\* A form has been yielded, an error raised before the end of the text, and
\* the consumer has asked again.
C13_Witness ==
    /\ pc = "error"
    /\ stops >= 1
    /\ ~eof
    /\ out # << >>

\* C14: after every advance coord is the (row, column) of the character
\* just consumed and next_coord that of the character under the cursor,
\* counted from (1, 1) with a newline starting a row.
C14_CursorCoord ==
    pulls >= 2 =>
        /\ coord = TrueCoord(src, pulls - 1)
        /\ next_coord = TrueCoord(src, pulls)

\* C15: a generator that is not running stands between top-level forms and
\* has pulled one character past the last form it yielded, and nothing at
\* all before the first request; whatever that character is, no error has
\* been raised.
C15_LazySingleLookahead ==
    /\ pc = "created" => pulls = 0 /\ src = << >> /\ out = << >>
    /\ pc = "yielded" =>
          /\ out # << >> /\ built # << >>
          /\ out[Len(out)].range = built[Len(built)].range
          /\ src[built[Len(built)].close] = ")"
          /\ pulls = built[Len(built)].close + 1
          /\ Len(src) <= pulls
    /\ pc \in {"created", "yielded"} =>
          /\ stack = << >> /\ tok = NoTok
          /\ err = NoErr

\* The first form has been yielded and the character after it, already
\* pulled, is a stray closing bracket: no error is raised yet.
C15_Witness ==
    /\ pc = "yielded"
    /\ Len(out) = 1
    /\ out[1].s # << >>
    /\ ch = ")"

\* The number of tokens of kind k among toks.
Count(toks, k) == Cardinality({i \in DOMAIN toks : toks[i].t = k})

\* Brackets opened and not closed in the text s, brackets inside delimited
\* atoms and comments not counted.
OpenCount(s) == Count(RefTokens(s), "(") - Count(RefTokens(s), ")")

\* The closing brackets among toks that close a top-level form.
TopForms(toks) ==
    Cardinality({i \in DOMAIN toks :
        /\ toks[i].t = ")"
        /\ Count(SubSeq(toks, 1, i), "(") = Count(SubSeq(toks, 1, i), ")")})

\* The tokens of the text s, a bare atom that runs to its end included.
RefFlushed(s) ==
    LET r == RefScan(s)
    IN  IF r.mode = "bare" THEN Append(r.toks, AtomTok(r.text)) ELSE r.toks

\* The tokens of the open frames, outermost first.
RECURSIVE FlattenStack(_)
FlattenStack(frames) ==
    IF frames = << >> THEN << >>
    ELSE <<OpenTok>> \o Flatten(Head(frames).exp) \o FlattenStack(Tail(frames))

\* C16: the open frames are the brackets opened and not yet closed in the
\* text consumed, brackets inside delimited atoms and comments not counted;
\* the forms yielded are the top-level forms closed so far; and the forms
\* yielded together with the open frames hold every element at the bracket
\* depth at which the text has it.
C16_BalancedNesting ==
    /\ Len(stack) = OpenCount(Consumed)
    /\ Len(out) = TopForms(RefTokens(Consumed))
    /\ Flatten(out) \o FlattenStack(stack)
          = IF pc = "atom" THEN RefTokens(Consumed) ELSE RefFlushed(Consumed)

\* The form ((a)) has been yielded: an atom two lists deep.
C16_Witness ==
    /\ pc = "yielded"
    /\ Len(out) = 1
    /\ Len(out[1].s) = 1
    /\ IsForm(out[1].s[1])
    /\ out[1].s[1].s = <<Atom(<<"a">>)>>

\* The handler calls made for bare atoms: those whose first character opens
\* no delimited atom.
BareCalls == {i \in DOMAIN calls : src[calls[i].first] \notin DOMAIN DEFAULT_DELIMS}

\* The characters that end a bare atom.
Reserved == {"(", ")", ";", DQ, BAR}

\* C17: every bare atom handed to the handler is the non-empty text between
\* its first and last character and holds no whitespace and no reserved
\* character; the character after it is the end of the stream, whitespace or
\* a reserved character, and it is left to the caller: a ')' there, once
\* consumed, has closed a list, and a delimiter there is the first character
\* of the next atom, a delimited one.
C17_BareAtoms ==
    \A i \in BareCalls :
        LET f == calls[i].first
            l == calls[i].last
        IN  /\ f <= l
            /\ calls[i].text = SubSeq(src, f, l)
            /\ BareText(calls[i].text)
            /\ pulls >= l + 1
            /\ l < Len(src) =>
                  /\ isspace(src[l + 1]) \/ src[l + 1] \in Reserved
                  /\ (src[l + 1] = ")" /\ pulls > l + 1) =>
                        \E b \in DOMAIN built : built[b].close = l + 1
                  /\ (src[l + 1] \in DOMAIN DEFAULT_DELIMS /\ pulls > l + 1) =>
                        IF i < Len(calls)
                        THEN /\ calls[i + 1].first = l + 1
                             /\ Head(calls[i + 1].text) = src[l + 1]
                        ELSE /\ tok # NoTok
                             /\ tok.first = l + 1
                             /\ tok.delim = src[l + 1]
            /\ l = Len(src) => eof \/ pulls = l

\* (a|n| has been read: the bare atom a, ended by the delimiter, and the
\* delimited atom |n| after it; and a list closed right after a bare atom.
C17_Witness ==
    /\ Len(calls) = 2
    /\ src[1] = "(" /\ src[2] = "a" /\ src[3] = BAR
    /\ calls[1].text = <<"a">>
    /\ calls[2].text = <<BAR, "n", BAR>>

\* The states in which no request is being served.
Ended == {"yielded", "done", "error"}

\* A request is being served.
Serving == pc \notin Ended \cup {"created"}

\* C18: every request for a form ends, with a form yielded, with the clean
\* end or with an error, and the three exclude each other; the reader never
\* advances more often than the source has characters, the end marker
\* counted; and every step of the loops consumes a character or leaves its
\* loop (the error and the end leave all of them, the end of a bare atom
\* leaves read_atom).
C18_Termination ==
    /\ Serving ~> (pc \in Ended)
    /\ [](pc = "error" <=> err.kind # "none")
    /\ [](pc = "yielded" => out # << >> /\ stack = << >>)
    /\ [](pulls <= Len(src) + 1)
    /\ [][Serving => \/ pulls' = pulls + 1
                     \/ pc' \in Ended
                     \/ tok # NoTok /\ tok' = NoTok]_vars

\* A form has been yielded and the next request has ended with an error,
\* after every character of the source and the end marker were pulled.
C18_Witness ==
    /\ pc = "error"
    /\ Len(out) = 1
    /\ eof
    /\ pulls = MaxLen + 1

\* C19: an UnexpectedEOF names the coordinate at which the end of the stream
\* was met: that of the position right after the last character of the text.
C19_EOFCoord ==
    err.kind = "UnexpectedEOF" => err.coord = TrueCoord(src, Len(src) + 1)

IsAtomTok(k) == k.t = "atom"

\* The atoms among toks, in order.
AtomsOf(toks) == SelectSeq(toks, IsAtomTok)

\* The handler calls made for atoms between the source indexes lo and hi.
CallsWithin(lo, hi) ==
    {i \in DOMAIN calls : lo < calls[i].first /\ calls[i].last < hi}

\* The atoms stored in the forms yielded and in the open lists, in order.
StoredAtoms == AtomsOf(Flatten(out) \o FlattenStack(stack))

\* The atoms of the text consumed, an atom being read not counted.
SourceAtoms ==
    AtomsOf(IF pc = "atom" THEN RefTokens(Consumed) ELSE RefFlushed(Consumed))

\* C20: the handler has been called exactly once for every atom of the text
\* consumed, with that atom's text, in the order of the source; the atoms
\* stored in the forms yielded and in the open lists are, element by element
\* and in the same order, what the handler returned for them (with a handler
\* that converts the text, not the text); every form constructed has had
\* the handler called for each atom between its brackets; and the step that
\* constructs a form calls no handler, so those calls came before.
C20_HandlerOrder ==
    /\ [](/\ Len(calls) = Len(SourceAtoms)
          /\ Len(StoredAtoms) = Len(calls)
          /\ \A i \in DOMAIN calls :
                /\ calls[i].text = SourceAtoms[i].text
                /\ handler = DefaultHandler =>
                      StoredAtoms[i].text = calls[i].text
                /\ handler = TagHandler =>
                      /\ StoredAtoms[i].text = <<"#">> \o calls[i].text
                      /\ StoredAtoms[i].text # calls[i].text
                /\ i > 1 => calls[i - 1].last < calls[i].first
          /\ \A b \in DOMAIN built :
                Cardinality(CallsWithin(built[b].open, built[b].close))
                  = Len(AtomsOf(RefTokens(
                        SubSeq(src, built[b].open, built[b].close)))))
    /\ [][/\ Len(built') > Len(built) => calls' = calls
          /\ Len(calls') >= Len(calls)
          /\ SubSeq(calls', 1, Len(calls)) = calls
          /\ handler' = handler]_vars

\* With the caller's handler, (a(n) has been consumed: the handler was
\* called for a, then for n, the inner list was constructed after the call
\* for n, and the open list holds #a, not a.
C20_Witness ==
    /\ handler = TagHandler
    /\ Len(calls) = 2
    /\ Len(built) = 1
    /\ calls[1].last < built[1].open
    /\ built[1].open < calls[2].first
    /\ calls[2].last < built[1].close
    /\ Len(stack) = 1
    /\ calls[1].text = <<"a">>
    /\ stack[1].exp[1] = Atom(<<"#", "a">>)

\* C21: once read(1) has returned the end marker the reader pulls no more:
\* no step taken while the current character is the end marker reads from
\* the source or moves the cursor; and from the first request on, the
\* characters pulled are those the cursor has moved past and the one under
\* it, which is the last one the source handed out (the end marker once the
\* source has ended).
C21_NoPullAfterEOF ==
    /\ [](pc = "created" => pulls = 0 /\ src = << >> /\ ~eof)
    /\ [](pc # "created" =>
             /\ pulls = Len(src) + (IF eof THEN 1 ELSE 0)
             /\ ch = (IF eof THEN EOFCH ELSE src[Len(src)])
             /\ Len(Consumed) + 1 = pulls)
    /\ [][(pc # "created" /\ ch = EOFCH) =>
             /\ pulls' = pulls
             /\ ch' = ch
             /\ src' = src
             /\ eof' = eof]_vars

\* The end marker was pulled while a form was read to its end; the form was
\* yielded, the next request ended the sequence and one more request was
\* made, all without another pull.
C21_Witness ==
    /\ pc = "done"
    /\ eof
    /\ stops = 1
    /\ Len(out) = 1
    /\ Len(src) >= 2
    /\ pulls = Len(src) + 1

====
